---- MODULE Spec2Model ----
(***************************************************************************)
(* Model of the live Wi-Fi samplers of saulitalja/wifi.  Four scripts hold *)
(* the same sampler/consumer design with small differences:                *)
(*   aalto.py    one history, 0.9 s debounce, None dBm stored as -100.0    *)
(*   signal1.py  one history, 0.9 s debounce, macOS scan without handler   *)
(*   signaali.py rssi/snr/srri histories, no debounce                      *)
(*   signal3.py  rssi/snr/srri/freq histories, 1.0 s debounce              *)
(* The variant is chosen in Init and never changes.  Times are integer     *)
(* milliseconds.  A stored value is a record: a real number, Python's None *)
(* or numpy's nan.                                                         *)
(***************************************************************************)
EXTENDS Integers, Sequences, FiniteSets, TLC

VARIABLES
    variant,        \* which script runs
    stop_event,     \* threading.Event shared by main and the scanner thread
    spc,            \* position of the scanner thread
    nets,           \* scanner local: result of scan_wifi()
    scan_ok,        \* FALSE when scan_wifi() took a failure path and returned []
    t,              \* scanner local: time.time() of the current tick
    ticks,          \* number of scans started
    lock,           \* owner of _lock
    time_axis,      \* deque(maxlen=MAX_POINTS)
    history_rssi,   \* history / history_rssi: ssid -> deque
    history_snr,
    history_srri,
    history_freq,
    keys,           \* insertion order of the history dict's keys
    axis0,          \* the store as the current tick found it when it took
    rssi0,          \*   the lock (kept until the lock is released)
    keys0,
    cpc,            \* position of the consumer (update_plot on the main thread)
    top_ssids,      \* consumer local: the identities chosen for drawing
    mpc,            \* position of main()
    fn,             \* the pure function applied last ("none" before any call)
    arg,            \* its argument
    res             \* what it returned

vars == <<variant, stop_event, spc, nets, scan_ok, t, ticks, lock, time_axis,
          history_rssi, history_snr, history_srri, history_freq, keys,
          axis0, rssi0, keys0, cpc, top_ssids, mpc, fn, arg, res>>

fnVars == <<fn, arg, res>>

store == <<time_axis, history_rssi, history_snr, history_srri, history_freq, keys>>

(***************************************************************************)
(* Bounds of the model.  MAX_POINTS is 60 in every script; the model keeps *)
(* the deque semantics and scales the capacity down.                       *)
(***************************************************************************)
MAX_POINTS == 2
MaxTicks == 3
MaxLiveTicks == 1
ClockStepBack == 1500

(***************************************************************************)
(* Program constants.                                                      *)
(***************************************************************************)
UPDATE_INTERVAL_MS == 2000
MinSleepMs == 500
SleepTrimMs == 100
SpacingAaltoMs == 900
SpacingSignal3Ms == 1000
NoiseFloor == 100
SnrFullScale == 70

Variants == {"aalto", "signal1", "signaali", "signal3"}

HIDDEN == "<hidden>"
Ssids == {"A", "B", HIDDEN}

Real(x) == [k |-> "real", v |-> x]
None == [k |-> "none", v |-> 0]
NaN == [k |-> "nan", v |-> 0]

Max(a, b) == IF a >= b THEN a ELSE b
Min(a, b) == IF a <= b THEN a ELSE b

\* What one scan can report for a network: network A on channel 6 with a
\* reading or with no usable signal, and a network without a name (and
\* without a channel) with a reading.
Observations ==
    {[ssid |-> "A", dbm |-> Real(-60), freq_mhz |-> Real(2437)],
     [ssid |-> "A", dbm |-> None, freq_mhz |-> Real(2437)],
     [ssid |-> "", dbm |-> Real(-70), freq_mhz |-> None]}

\* Lists scan_wifi() can return: empty, one network, two networks (the same
\* name may be listed twice: one row per access point).
ScanResults ==
    {<<>>} \cup {<<o>> : o \in Observations}
           \cup {<<o1, o2>> : o1 \in Observations, o2 \in Observations}

\* deque(maxlen=MAX_POINTS).append
DequeAppend(d, x) ==
    IF Len(d) >= MAX_POINTS THEN Append(Tail(d), x) ELSE Append(d, x)

HasDebounce(v) == v \in {"aalto", "signal1", "signal3"}
MinSpacing(v) == IF v = "signal3" THEN SpacingSignal3Ms ELSE SpacingAaltoMs
SleepMs(v) ==
    IF v \in {"aalto", "signal1"}
    THEN Max(MinSleepMs, UPDATE_INTERVAL_MS - SleepTrimMs)
    ELSE UPDATE_INTERVAL_MS
HasDerived(v) == v \in {"signaali", "signal3"}
HasFreq(v) == v = "signal3"
ScanCanRaise(v) == v = "signal1"

dbm_to_snr(dbm) ==
    IF dbm.k = "real" THEN Real(Max(0, dbm.v + NoiseFloor)) ELSE Real(0)

\* a ratio with no clamping
snr_to_srri_unclamped(snr) == Real((snr.v * 100 * 7) \div SnrFullScale)

\* The ratio (snr / 70) * 100 clamped to [0, 100], kept exactly as a count of
\* sevenths: the stored number is 7 * srri, between 0 and 700.
snr_to_srri(snr) == Real(Max(0, Min(100 * 7, (snr.v * 100 * 7) \div SnrFullScale)))

\* dbm as the merge loop stores it
StoredDbm(v, dbm) ==
    IF v = "aalto" /\ dbm.k = "none" THEN Real(-100) ELSE dbm

Init ==
    /\ variant \in Variants
    /\ stop_event = FALSE
    /\ spc = "check"
    /\ nets = <<>>
    /\ scan_ok = TRUE
    /\ t = 0
    /\ ticks = 0
    /\ lock = "none"
    /\ time_axis = <<>>
    /\ history_rssi = [s \in Ssids |-> <<>>]
    /\ history_snr = [s \in Ssids |-> <<>>]
    /\ history_srri = [s \in Ssids |-> <<>>]
    /\ history_freq = [s \in Ssids |-> <<>>]
    /\ keys = <<>>
    /\ axis0 = <<>>
    /\ rssi0 = [s \in Ssids |-> <<>>]
    /\ keys0 = <<>>
    /\ cpc = "idle"
    /\ top_ssids = <<>>
    /\ mpc = "show"
    /\ fn = "none"
    /\ arg = <<>>
    /\ res = <<>>

Range(q) == {q[i] : i \in 1..Len(q)}

(***************************************************************************)
(* The scanner thread: while not stop_event.is_set(): scan, merge under    *)
(* the lock, sleep.                                                        *)
(***************************************************************************)
consumerVars == <<cpc, top_ssids>>
ghostVars == <<axis0, rssi0, keys0>>

\* a loop that never looks at the stop signal ("while True:")
LoopCheckIgnoringStop(limit) ==
    /\ spc = "check"
    /\ ticks < limit
    /\ spc' = "scan"
    /\ UNCHANGED <<variant, stop_event, nets, scan_ok, t, ticks, lock, store,
                   ghostVars, consumerVars, mpc>>
    /\ UNCHANGED fnVars

\* while not stop_event.is_set():   (at most limit scans are followed)
LoopCheckWithin(limit) ==
    /\ spc = "check"
    /\ IF stop_event
       THEN spc' = "Stopped"
       ELSE /\ ticks < limit
            /\ spc' = "scan"
    /\ UNCHANGED <<variant, stop_event, nets, scan_ok, t, ticks, lock, store,
                   ghostVars, consumerVars, mpc>>
    /\ UNCHANGED fnVars

LoopCheck == LoopCheckWithin(MaxTicks)

\* time.time() after the scan: the sleep has passed since the last tick,
\* unless the wall clock was set back meanwhile.
ScanTimes ==
    IF ticks = 0 THEN {0}
    ELSE {t + SleepMs(variant), t + SleepMs(variant) - ClockStepBack}

\* nets = scan_wifi(); t = time.time()
ScanReturns ==
    /\ spc = "scan"
    /\ \/ /\ nets' \in ScanResults
          /\ scan_ok' = TRUE
       \/ /\ nets' = <<>>            \* except Exception: return [] / unknown platform
          /\ scan_ok' = FALSE
    /\ t' \in ScanTimes
    /\ ticks' = ticks + 1
    /\ spc' = "lock"
    /\ UNCHANGED <<variant, stop_event, lock, store, ghostVars, consumerVars, mpc>>
    /\ UNCHANGED fnVars

\* signal1.py scan_macos() calls CoreWLAN outside any try: an exception
\* leaves scanner_thread_func and ends the thread.
ScanRaises ==
    /\ spc = "scan"
    /\ ScanCanRaise(variant)
    /\ ticks' = ticks + 1
    /\ spc' = "Crashed"
    /\ UNCHANGED <<variant, stop_event, nets, scan_ok, t, lock, store,
                   ghostVars, consumerVars, mpc>>
    /\ UNCHANGED fnVars

\* the merge entered without taking _lock
EnterWithoutLock ==
    /\ spc = "lock"
    /\ spc' = "push"
    /\ axis0' = time_axis
    /\ rssi0' = history_rssi
    /\ keys0' = keys
    /\ UNCHANGED <<variant, stop_event, nets, scan_ok, t, ticks, lock, store,
                   consumerVars, mpc>>
    /\ UNCHANGED fnVars

\* with _lock:  (entry)
AcquireLock ==
    /\ spc = "lock"
    /\ lock = "none"
    /\ lock' = "scanner"
    /\ spc' = "push"
    /\ axis0' = time_axis
    /\ rssi0' = history_rssi
    /\ keys0' = keys
    /\ UNCHANGED <<variant, stop_event, nets, scan_ok, t, ticks, store,
                   consumerVars, mpc>>
    /\ UNCHANGED fnVars

\* if not time_axis or (t - time_axis[-1] >= spacing): time_axis.append(t)
AxisAfterTick(v, axis, now) ==
    IF HasDebounce(v)
    THEN IF axis = <<>> \/ now - axis[Len(axis)] >= MinSpacing(v)
         THEN DequeAppend(axis, now)
         ELSE axis
    ELSE DequeAppend(axis, now)

PushTime ==
    /\ spc = "push"
    /\ time_axis' = AxisAfterTick(variant, time_axis, t)
    /\ spc' = "update"
    /\ UNCHANGED <<variant, stop_event, nets, scan_ok, t, ticks, lock,
                   history_rssi, history_snr, history_srri, history_freq, keys,
                   ghostVars, consumerVars, mpc>>
    /\ UNCHANGED fnVars

\* a loop body that leaves the frequency series alone when the scan gave no
\* frequency
MergeNetSkippingFreq(v, st, net) ==
    LET ssid == IF net.ssid = "" THEN HIDDEN ELSE net.ssid
        dbm == StoredDbm(v, net.dbm)
        snr == dbm_to_snr(dbm)
        srri == snr_to_srri(snr)
    IN [st EXCEPT
          !.rssi[ssid] = DequeAppend(@, dbm),
          !.snr[ssid]  = IF HasDerived(v) THEN DequeAppend(@, snr) ELSE @,
          !.srri[ssid] = IF HasDerived(v) THEN DequeAppend(@, srri) ELSE @,
          !.freq[ssid] = IF HasFreq(v) /\ net.freq_mhz # None
                         THEN DequeAppend(@, net.freq_mhz) ELSE @,
          !.keys = IF ssid \in Range(@) THEN @ ELSE Append(@, ssid),
          !.seen = @ \cup {ssid}]

\* body of "for net in nets:"
MergeNet(v, st, net) ==
    LET ssid == IF net.ssid = "" THEN HIDDEN ELSE net.ssid
        dbm == StoredDbm(v, net.dbm)
        snr == dbm_to_snr(dbm)
        srri == snr_to_srri(snr)
    IN [st EXCEPT
          !.rssi[ssid] = DequeAppend(@, dbm),
          !.snr[ssid]  = IF HasDerived(v) THEN DequeAppend(@, snr) ELSE @,
          !.srri[ssid] = IF HasDerived(v) THEN DequeAppend(@, srri) ELSE @,
          !.freq[ssid] = IF HasFreq(v) THEN DequeAppend(@, net.freq_mhz) ELSE @,
          !.keys = IF ssid \in Range(@) THEN @ ELSE Append(@, ssid),
          !.seen = @ \cup {ssid}]

RECURSIVE MergeNets(_, _, _, _)
MergeNets(v, st, ns, i) ==
    IF i > Len(ns) THEN st ELSE MergeNets(v, MergeNet(v, st, ns[i]), ns, i + 1)

\* a merge that leaves the identities it did not see as they were
PadNothing(h, order, seen) == h

\* for s in list(history.keys()): if s not in seen: append nan
PadAbsent(h, order, seen) ==
    [s \in Ssids |-> IF s \in Range(order) \ seen THEN DequeAppend(h[s], NaN) ELSE h[s]]

MarkAbsent(v, st) ==
    [st EXCEPT !.rssi = PadAbsent(@, st.keys, st.seen),
               !.snr  = IF HasDerived(v) THEN PadAbsent(@, st.keys, st.seen) ELSE @,
               !.srri = IF HasDerived(v) THEN PadAbsent(@, st.keys, st.seen) ELSE @,
               !.freq = IF HasFreq(v) THEN PadAbsent(@, st.keys, st.seen) ELSE @]

MergedStore(v, ns) ==
    MarkAbsent(v, MergeNets(v, [rssi |-> history_rssi, snr |-> history_snr,
                                srri |-> history_srri, freq |-> history_freq,
                                keys |-> keys, seen |-> {}], ns, 1))

UpdateHistories ==
    /\ spc = "update"
    /\ LET st == MergedStore(variant, nets)
       IN /\ history_rssi' = st.rssi
          /\ history_snr' = st.snr
          /\ history_srri' = st.srri
          /\ history_freq' = st.freq
          /\ keys' = st.keys
    /\ spc' = "unlock"
    /\ UNCHANGED <<variant, stop_event, nets, scan_ok, t, ticks, lock, time_axis,
                   ghostVars, consumerVars, mpc>>
    /\ UNCHANGED fnVars

\* a tick that goes to sleep without leaving the with block
SleepHoldingLock ==
    /\ spc = "unlock"
    /\ spc' = "sleep"
    /\ nets' = <<>>
    /\ scan_ok' = TRUE
    /\ axis0' = <<>>
    /\ rssi0' = [s \in Ssids |-> <<>>]
    /\ keys0' = <<>>
    /\ UNCHANGED <<variant, stop_event, t, ticks, lock, store, consumerVars, mpc>>
    /\ UNCHANGED fnVars

\* leaving the with block
ReleaseLock ==
    /\ spc = "unlock"
    /\ lock' = "none"
    /\ spc' = "sleep"
    /\ nets' = <<>>
    /\ scan_ok' = TRUE
    /\ axis0' = <<>>
    /\ rssi0' = [s \in Ssids |-> <<>>]
    /\ keys0' = <<>>
    /\ UNCHANGED <<variant, stop_event, t, ticks, store, consumerVars, mpc>>
    /\ UNCHANGED fnVars

\* a sleep that is followed by the next scan without the loop test
SleepIntoScan ==
    /\ spc = "sleep"
    /\ ticks < MaxTicks
    /\ spc' = "scan"
    /\ UNCHANGED <<variant, stop_event, nets, scan_ok, t, ticks, lock, store,
                   ghostVars, consumerVars, mpc>>
    /\ UNCHANGED fnVars

\* time.sleep(...)
Sleep ==
    /\ spc = "sleep"
    /\ spc' = "check"
    /\ UNCHANGED <<variant, stop_event, nets, scan_ok, t, ticks, lock, store,
                   ghostVars, consumerVars, mpc>>
    /\ UNCHANGED fnVars

Scanner ==
    \/ LoopCheck
    \/ ScanReturns
    \/ ScanRaises
    \/ AcquireLock
    \/ PushTime
    \/ UpdateHistories
    \/ ReleaseLock
    \/ Sleep

(***************************************************************************)
(* The consumer: update_plot, called by the animation timer on the main    *)
(* thread while plt.show() runs.                                           *)
(***************************************************************************)
TopCountAalto == 12
TopCountSignal1 == 10
TopCountSignaali == 5
TopCountSignal3 == 8

TopCount(v) ==
    CASE v = "aalto" -> TopCountAalto
      [] v = "signal1" -> TopCountSignal1
      [] v = "signaali" -> TopCountSignaali
      [] OTHER -> TopCountSignal3

HasNone(d) == \E i \in 1..Len(d) : d[i].k = "none"
RealsOf(d) == {d[i].v : i \in {j \in 1..Len(d) : d[j].k = "real"}}
SetMax(S) == CHOOSE x \in S : \A y \in S : y <= x

\* np.nanmax(np.array(d)) raises on an object array that holds None next to
\* anything else (None cannot be compared).
NanMaxRaises(d) == HasNone(d) /\ Len(d) >= 2

\* np.nanmax(np.array(d)) if d else -999
SortKey(d) ==
    IF d = <<>> THEN Real(-999)
    ELSE IF HasNone(d) THEN None
    ELSE IF RealsOf(d) = {} THEN NaN
    ELSE Real(SetMax(RealsOf(d)))

\* a < b on floats: False whenever either side is nan
IsLt(a, b) == a.k = "real" /\ b.k = "real" /\ a.v < b.v

\* list.sort on fewer than 64 items: the leading run is found (a strictly
\* descending one is reversed), the rest is inserted by binary search.
RECURSIVE RunEnd(_, _, _)
RunEnd(ks, i, desc) ==
    IF i > Len(ks) THEN i - 1
    ELSE IF IsLt(ks[i], ks[i - 1]) = desc THEN RunEnd(ks, i + 1, desc)
    ELSE i - 1

Reverse(q) == [i \in 1..Len(q) |-> q[Len(q) + 1 - i]]

RECURSIVE BinaryFind(_, _, _, _)
BinaryFind(ks, pivot, l, r) ==
    IF l >= r THEN l
    ELSE LET p == l + ((r - l) \div 2)
         IN IF IsLt(pivot, ks[p]) THEN BinaryFind(ks, pivot, l, p)
            ELSE BinaryFind(ks, pivot, p + 1, r)

InsertAt(q, i, x) == SubSeq(q, 1, i - 1) \o <<x>> \o SubSeq(q, i, Len(q))

\* items are <<key, ssid>> pairs; start is the first unsorted position
RECURSIVE BinarySort(_, _)
BinarySort(items, start) ==
    IF start > Len(items) THEN items
    ELSE LET head == SubSeq(items, 1, start - 1)
             pivot == items[start]
             at == BinaryFind([i \in 1..Len(head) |-> head[i][1]], pivot[1], 1, start)
         IN BinarySort(InsertAt(head, at, pivot) \o SubSeq(items, start + 1, Len(items)),
                       start + 1)

ListSort(items) ==
    IF Len(items) < 2 THEN items
    ELSE LET ks == [i \in 1..Len(items) |-> items[i][1]]
             desc == IsLt(ks[2], ks[1])
             n == RunEnd(ks, 3, desc)
             run == SubSeq(items, 1, n)
             sortedRun == IF desc THEN Reverse(run) ELSE run
         IN BinarySort(sortedRun \o SubSeq(items, n + 1, Len(items)), n + 1)

\* sorted(history.keys(), key=lambda s: np.nanmax(...) if history[s] else -999)
SortedSsids(order, hist) ==
    LET items == [i \in 1..Len(order) |-> <<SortKey(hist[order[i]]), order[i]>>]
        done == ListSort(items)
    IN [i \in 1..Len(done) |-> done[i][2]]

\* the key function or a comparison raises TypeError
SortedRaises(order, hist) ==
    \/ \E i \in 1..Len(order) : NanMaxRaises(hist[order[i]])
    \/ /\ Len(order) >= 2
       /\ \E i \in 1..Len(order) : SortKey(hist[order[i]]).k = "none"

\* ssids[:n]
TopN(order, hist, n) ==
    LET ssids == SortedSsids(order, hist)
    IN SubSeq(ssids, 1, Min(n, Len(ssids)))

\* with _lock: and the body of update_plot up to the choice of top_ssids.
\* "return" on an empty axis and an exception both leave the with block at
\* once.  Nothing else can touch the store while the lock is held, so taking
\* the lock and reading are one step.
ConsumerRead ==
    /\ mpc = "show"
    /\ fn = "none"
    /\ arg = <<>>
    /\ res = <<>>
    /\ cpc = "idle"
    /\ lock = "none"
    /\ IF time_axis = <<>> \/ SortedRaises(keys, history_rssi)
       THEN /\ lock' = "none"
            /\ cpc' = "idle"
            /\ top_ssids' = <<>>
       ELSE /\ lock' = "consumer"
            /\ cpc' = "render"
            /\ top_ssids' = TopN(keys, history_rssi, TopCount(variant))
    /\ UNCHANGED <<variant, stop_event, spc, nets, scan_ok, t, ticks, store,
                   ghostVars, mpc>>
    /\ UNCHANGED fnVars

\* ax.clear(), ax.plot(...), ax.legend(...): drawing, then the with block ends
ConsumerRender ==
    /\ cpc = "render"
    /\ lock' = "none"
    /\ cpc' = "idle"
    /\ top_ssids' = <<>>
    /\ UNCHANGED <<variant, stop_event, spc, nets, scan_ok, t, ticks, store,
                   ghostVars, mpc>>
    /\ UNCHANGED fnVars

Consumer == ConsumerRead \/ ConsumerRender

(***************************************************************************)
(* main(): plt.show() returns, then stop_event.set(); scanner.join(2).     *)
(***************************************************************************)
MainStop ==
    /\ mpc = "show"
    /\ fn = "none"
    /\ arg = <<>>
    /\ res = <<>>
    /\ cpc = "idle"
    /\ stop_event' = TRUE
    /\ mpc' = "join"
    /\ UNCHANGED <<variant, spc, nets, scan_ok, t, ticks, lock, store,
                   ghostVars, consumerVars>>
    /\ UNCHANGED fnVars

\* scanner.join(timeout=2) returns, the thread ended or not, and main() ends
MainJoinReturns ==
    /\ mpc = "join"
    /\ mpc' = "done"
    /\ UNCHANGED <<variant, stop_event, spc, nets, scan_ok, t, ticks, lock, store,
                   ghostVars, consumerVars>>
    /\ UNCHANGED fnVars

Main == MainStop \/ MainJoinReturns

Next == Scanner \/ Consumer \/ Main

Spec == Init /\ [][Next]_vars

\* The same program followed for MaxLiveTicks scans, with the scheduling it
\* runs under: the scanner thread keeps taking steps whenever it can (a scan
\* ends within its timeout, a sleep ends), and a drawing that has begun ends.
ScannerLive ==
    \/ LoopCheckWithin(MaxLiveTicks)
    \/ ScanReturns
    \/ ScanRaises
    \/ AcquireLock
    \/ PushTime
    \/ UpdateHistories
    \/ ReleaseLock
    \/ Sleep

NextLive == ScannerLive \/ Consumer \/ Main

LiveSpec ==
    /\ Init
    /\ [][NextLive]_vars
    /\ WF_vars(ScannerLive)
    /\ WF_vars(ConsumerRender)

(***************************************************************************)
(* Properties.                                                             *)
(***************************************************************************)
Tracked == Range(keys)
Last(q) == q[Len(q)]

\* the names the current tick's scan result lists, as the merge loop keys them
SeenNow == {IF nets[i].ssid = "" THEN HIDDEN ELSE nets[i].ssid : i \in 1..Len(nets)}

\* every value a point of a raw-signal series can hold
PointValues == {Real(-60), Real(-70), Real(-100), None, NaN}

\* the scanner has finished the merge of a tick and still holds the lock
TickMerged == spc = "unlock"

\* every series the variant keeps for identity s
SeriesOf(s) ==
    {history_rssi[s]}
        \cup (IF HasDerived(variant) THEN {history_snr[s], history_srri[s]} ELSE {})
        \cup (IF HasFreq(variant) THEN {history_freq[s]} ELSE {})

\* C1: whenever a consumer can read the store under the lock (the scanner
\* does not hold it), every tracked identity's series is as long as the time
\* axis, and the time axis holds at most MAX_POINTS entries.
C1_SeriesMatchAxis ==
    lock # "scanner" =>
        /\ Len(time_axis) <= MAX_POINTS
        /\ \A s \in Tracked : \A d \in SeriesOf(s) : Len(d) = Len(time_axis)

\* C2: a completed tick has given the time axis exactly one new timestamp and
\* every tracked identity exactly one new point: absent (nan) if the identity
\* was not in the scan, a value otherwise.  An identity seen in tick 1 and not
\* in tick 2 then has a series of length 2 ending in nan, with an axis of
\* length 2.
C2_OnePointPerTick ==
    TickMerged =>
        /\ time_axis = DequeAppend(axis0, t)
        /\ \A s \in Tracked :
              \E x \in PointValues :
                 /\ history_rssi[s] = DequeAppend(rssi0[s], x)
                 /\ (x = NaN) <=> (s \notin SeenNow)
        /\ \A s \in Range(keys0) :
              (ticks = 2 /\ s \notin SeenNow) =>
                  /\ Len(history_rssi[s]) = 2
                  /\ history_rssi[s][2] = NaN
                  /\ Len(time_axis) = 2

\* C3: a tick that finds the time axis full and appends its timestamp drops
\* exactly the oldest timestamp and exactly the oldest point of every tracked
\* identity, and leaves all of them with MAX_POINTS entries.
C3_EvictsOldest ==
    (TickMerged /\ Len(axis0) = MAX_POINTS /\ time_axis # axis0) =>
        /\ time_axis = Append(Tail(axis0), t)
        /\ \A s \in Range(keys0) :
              /\ Len(history_rssi[s]) = MAX_POINTS
              /\ rssi0[s] # <<>>
              /\ SubSeq(history_rssi[s], 1, MAX_POINTS - 1) = Tail(rssi0[s])

\* C4: a failing scan still yields a tick (the thread does not end on it), and
\* that tick adds no identity and no observation, appends one timestamp, and
\* appends one absent marker to every tracked identity.
C4_FailedScanTick ==
    /\ spc # "Crashed"
    /\ (TickMerged /\ ~scan_ok) =>
        /\ keys = keys0
        /\ time_axis = DequeAppend(axis0, t)
        /\ \A s \in Ssids :
              history_rssi[s] = IF s \in Range(keys0)
                                THEN DequeAppend(rssi0[s], NaN) ELSE <<>>

\* C5: a timestamp is appended only when it is at least the minimum spacing
\* after the last one, so neighbours on the axis are at least that far apart;
\* a tick inside the window leaves the axis alone and lets no series grow.
C5_Debounce ==
    /\ \A i \in 1..(Len(time_axis) - 1) :
          time_axis[i + 1] - time_axis[i] >= MinSpacing(variant)
    /\ TickMerged =>
          /\ (time_axis # axis0) =>
                (axis0 = <<>> \/ t - Last(axis0) >= MinSpacing(variant))
          /\ (axis0 # <<>> /\ t - Last(axis0) < MinSpacing(variant)) =>
                /\ time_axis = axis0
                /\ \A s \in Ssids : Len(history_rssi[s]) = Len(rssi0[s])

\* C8: the consumer never draws while it holds the lock.
C8_NoRenderUnderLock == ~(cpc = "render" /\ lock = "consumer")

\* C10: the scanner thread ends only after the stop signal was set.
C10_OnlyStopEnds == (spc \in {"Stopped", "Crashed"}) => stop_event

(***************************************************************************)
(* The ranking on its own: update_plot applied to stores of three tracked  *)
(* identities whose series hold readings of -40, -55 and -70 dBm and gaps. *)
(***************************************************************************)
RankLevels == {-40, -55, -70}
RankSeries ==
    {<<Real(x)>> : x \in RankLevels}
        \cup {<<Real(x), NaN>> : x \in RankLevels}
        \cup {<<Real(x), Real(y)>> : x \in RankLevels, y \in RankLevels}
RankOrders ==
    {q \in [1..3 -> Ssids] : \A i, j \in 1..3 : i # j => q[i] # q[j]}

InitRank ==
    /\ variant \in Variants
    /\ stop_event = FALSE
    /\ spc = "sleep"
    /\ nets = <<>>
    /\ scan_ok = TRUE
    /\ t = SleepMs(variant)
    /\ ticks = MaxTicks
    /\ lock = "none"
    /\ time_axis = <<0, SleepMs(variant)>>
    /\ history_rssi \in [Ssids -> RankSeries]
    /\ history_snr = [s \in Ssids |->
          IF HasDerived(variant)
          THEN [i \in 1..Len(history_rssi[s]) |->
                  IF history_rssi[s][i] = NaN THEN NaN
                  ELSE dbm_to_snr(history_rssi[s][i])]
          ELSE <<>>]
    /\ history_srri = [s \in Ssids |->
          IF HasDerived(variant)
          THEN [i \in 1..Len(history_rssi[s]) |->
                  IF history_rssi[s][i] = NaN THEN NaN
                  ELSE snr_to_srri(dbm_to_snr(history_rssi[s][i]))]
          ELSE <<>>]
    /\ history_freq = [s \in Ssids |->
          IF HasFreq(variant)
          THEN [i \in 1..Len(history_rssi[s]) |->
                  IF history_rssi[s][i] = NaN THEN NaN ELSE Real(2437)]
          ELSE <<>>]
    /\ keys \in RankOrders
    /\ axis0 = <<>>
    /\ rssi0 = [s \in Ssids |-> <<>>]
    /\ keys0 = <<>>
    /\ cpc = "idle"
    /\ top_ssids = <<>>
    /\ mpc = "show"
    /\ fn = "none"
    /\ arg = <<>>
    /\ res = <<>>

NextRank == ConsumerRead \/ ConsumerRender

SpecRank == InitRank /\ [][NextRank]_vars

\* C6: the selection lists identities by their strongest reading, strongest
\* first: with maxima of -40, -70 and -55 dBm the first two chosen are the
\* -40 identity and then the -55 identity.
C6_TopByMaxDescending ==
    cpc = "render" =>
        /\ \A i, j \in 1..Len(top_ssids) :
              i < j => SortKey(history_rssi[top_ssids[i]]).v
                          >= SortKey(history_rssi[top_ssids[j]]).v
        /\ \A a, b, c \in Ssids :
              (/\ SortKey(history_rssi[a]) = Real(-40)
               /\ SortKey(history_rssi[b]) = Real(-70)
               /\ SortKey(history_rssi[c]) = Real(-55))
                  => SubSeq(top_ssids, 1, 2) = <<a, c>>

MergePcs == {"push", "update", "unlock"}

\* C7: the store changes only in steps the scanner takes while it holds the
\* lock, the scanner holds the lock through the whole merge of a tick, and a
\* consumer that reads holds the same lock, so it never reads while a tick is
\* partly merged.
C7_LockDiscipline ==
    [][/\ (store' # store) => (lock = "scanner" /\ lock' = "scanner")
       /\ (spc' \in MergePcs) => (lock' = "scanner")
       /\ (cpc' = "render") => (lock' = "consumer" /\ spc' \notin MergePcs)]_vars

\* the consumer reads a store that holds data while the scanner waits for the
\* lock with the next tick's result
C7_Witness ==
    /\ cpc = "render"
    /\ lock = "consumer"
    /\ spc = "lock"
    /\ Tracked # {}
    /\ nets # <<>>

KeyOf(net) == IF net.ssid = "" THEN HIDDEN ELSE net.ssid

\* the last row of the current scan result that is keyed s
LastRow(s) ==
    nets[CHOOSE i \in 1..Len(nets) :
            /\ KeyOf(nets[i]) = s
            /\ \A j \in (i + 1)..Len(nets) : KeyOf(nets[j]) # s]

\* C13: after a tick the newest raw-signal point of every tracked identity
\* tells three cases apart: not seen (nan), seen with a reading v (v itself),
\* seen with unknown signal (neither a number nor nan).
C13_ThreeCases ==
    TickMerged =>
        \A s \in Tracked :
            IF s \notin SeenNow
            THEN Last(history_rssi[s]) = NaN
            ELSE IF LastRow(s).dbm.k = "real"
                 THEN Last(history_rssi[s]) = LastRow(s).dbm
                 ELSE Last(history_rssi[s]).k \notin {"real", "nan"}

\* C14: no step removes a tracked identity, and the merge of a tick appends
\* one absent marker to every series of each tracked identity the scan did
\* not list (dropping its oldest point only when the series is full).
C14_NeverRemoved ==
    [][/\ Range(keys) \subseteq Range(keys')
       /\ (spc = "update" /\ spc' = "unlock") =>
             \A s \in Range(keys) \ SeenNow :
                /\ history_rssi'[s] = DequeAppend(history_rssi[s], NaN)
                /\ HasDerived(variant) =>
                      /\ history_snr'[s] = DequeAppend(history_snr[s], NaN)
                      /\ history_srri'[s] = DequeAppend(history_srri[s], NaN)
                /\ HasFreq(variant) =>
                      history_freq'[s] = DequeAppend(history_freq[s], NaN)]_vars

\* an identity with a full series of readings is not listed by a scan and
\* loses its oldest reading to the absent marker
C14_Witness ==
    /\ spc = "unlock"
    /\ \E s \in Range(keys0) \ SeenNow :
          /\ Len(rssi0[s]) = MAX_POINTS
          /\ rssi0[s][1].k = "real"
          /\ history_rssi[s] = Append(Tail(rssi0[s]), NaN)

\* C20: the scanner holds the lock only between taking it for the merge and
\* leaving the with block: never while it checks the stop signal, scans,
\* waits for the lock, sleeps, or after it has ended.
C20_LockOnlyForMerge == (lock = "scanner") => (spc \in MergePcs)

\* the consumer holds the lock and draws a non-empty store while a scan runs
C20_Witness ==
    /\ spc = "scan"
    /\ cpc = "render"
    /\ lock = "consumer"
    /\ time_axis # <<>>

(***************************************************************************)
(* Text.  A string is a sequence of one-character strings.                 *)
(***************************************************************************)
DigitChars == {"0", "1", "2", "3", "4", "5", "6", "7", "8", "9"}
DigitVal ==
    ("0" :> 0) @@ ("1" :> 1) @@ ("2" :> 2) @@ ("3" :> 3) @@ ("4" :> 4) @@
    ("5" :> 5) @@ ("6" :> 6) @@ ("7" :> 7) @@ ("8" :> 8) @@ ("9" :> 9)

IsSpace(c) == c \in {" ", "\n"}
AllDigits(s) == s # <<>> /\ \A i \in 1..Len(s) : s[i] \in DigitChars

RECURSIVE DigitsValue(_)
DigitsValue(s) ==
    IF s = <<>> THEN 0
    ELSE 10 * DigitsValue(SubSeq(s, 1, Len(s) - 1)) + DigitVal[s[Len(s)]]

RECURSIVE LStrip(_)
LStrip(s) == IF s # <<>> /\ IsSpace(s[1]) THEN LStrip(Tail(s)) ELSE s

RECURSIVE RStrip(_)
RStrip(s) ==
    IF s # <<>> /\ IsSpace(s[Len(s)]) THEN RStrip(SubSeq(s, 1, Len(s) - 1)) ELSE s

\* str.strip()
Strip(s) == RStrip(LStrip(s))

\* int(text): surrounding blanks and one sign are accepted; anything else
\* raises ValueError (ok = FALSE)
IntOfText(s) ==
    LET b == Strip(s)
        signed == b # <<>> /\ b[1] \in {"-", "+"}
        ds == IF signed THEN Tail(b) ELSE b
    IN IF AllDigits(ds)
       THEN [ok |-> TRUE,
             v |-> IF signed /\ b[1] = "-" THEN 0 - DigitsValue(ds) ELSE DigitsValue(ds)]
       ELSE [ok |-> FALSE, v |-> 0]

IntArg(n) == [k |-> "int", v |-> n]
TextArg(s) == [k |-> "text", v |-> s]

\* int(channel) for an int or a str argument
IntOf(x) == IF x.k = "int" THEN [ok |-> TRUE, v |-> x.v] ELSE IntOfText(x.v)

(***************************************************************************)
(* channel_to_freq_mhz, the same function in all five scripts.             *)
(***************************************************************************)
FreqTable ==
    (36 :> 5180) @@ (40 :> 5200) @@ (44 :> 5220) @@ (48 :> 5240) @@
    (52 :> 5260) @@ (56 :> 5280) @@ (60 :> 5300) @@ (64 :> 5320) @@
    (100 :> 5500) @@ (104 :> 5520) @@ (108 :> 5540) @@ (112 :> 5560) @@
    (116 :> 5580) @@ (120 :> 5600) @@ (124 :> 5620) @@ (128 :> 5640) @@
    (132 :> 5660) @@ (136 :> 5680) @@ (140 :> 5700) @@ (144 :> 5720) @@
    (149 :> 5745) @@ (153 :> 5765) @@ (157 :> 5785) @@ (161 :> 5805) @@
    (165 :> 5825)

\* a conversion that extends the 5 GHz rule to every channel above 14
channel_to_freq_by_rule(channel) ==
    LET ch == IntOf(channel)
    IN IF ~ch.ok THEN None
       ELSE IF 1 <= ch.v /\ ch.v <= 14 THEN Real(2407 + 5 * ch.v)
       ELSE IF ch.v > 14 THEN Real(5000 + 5 * ch.v)
       ELSE None

channel_to_freq_mhz(channel) ==
    LET ch == IntOf(channel)
    IN IF ~ch.ok THEN None
       ELSE IF 1 <= ch.v /\ ch.v <= 14 THEN Real(2407 + 5 * ch.v)
       ELSE IF ch.v \in DOMAIN FreqTable THEN Real(FreqTable[ch.v])
       ELSE None

Scripts == Variants \cup {"wifi"}

BelowZero == 3
MaxChannel == 166

\* channel arguments given as text, with the integer each one denotes
ChannelTexts ==
    {<<<<"6">>, 6>>, <<<<"1", "4">>, 14>>, <<<<"1", "5">>, 15>>,
     <<<<"3", "6">>, 36>>, <<<<"1", "6", "5">>, 165>>, <<<<"1", "6", "6">>, 166>>,
     <<<<"0">>, 0>>, <<<<"0", "6">>, 6>>, <<<<" ", "6", " ">>, 6>>,
     <<<<"-", "1">>, -1>>, <<<<"+", "6">>, 6>>}

\* channel arguments that are no integer
NonNumericTexts ==
    {<<>>, <<"x">>, <<"6", "x">>, <<"6", ".", "5">>, <<"-">>, <<"6", " ", "1">>,
     <<"6", ",", "1">>, <<" ">>}

ChannelInputs ==
    {IntArg(n) : n \in (0 - BelowZero)..MaxChannel}
        \cup {TextArg(p[1]) : p \in ChannelTexts}
        \cup {TextArg(s) : s \in NonNumericTexts}

\* every variable of the samplers at rest
SamplerAtRest ==
    /\ stop_event = FALSE
    /\ spc = "sleep"
    /\ nets = <<>>
    /\ scan_ok = TRUE
    /\ t = 0
    /\ ticks = 0
    /\ lock = "none"
    /\ time_axis = <<>>
    /\ history_rssi = [s \in Ssids |-> <<>>]
    /\ history_snr = [s \in Ssids |-> <<>>]
    /\ history_srri = [s \in Ssids |-> <<>>]
    /\ history_freq = [s \in Ssids |-> <<>>]
    /\ keys = <<>>
    /\ axis0 = <<>>
    /\ rssi0 = [s \in Ssids |-> <<>>]
    /\ keys0 = <<>>
    /\ cpc = "idle"
    /\ top_ssids = <<>>
    /\ mpc = "show"

samplerVars ==
    <<stop_event, spc, nets, scan_ok, t, ticks, lock, store, ghostVars,
      consumerVars, mpc>>

InitFreq ==
    /\ variant \in Scripts
    /\ SamplerAtRest
    /\ fn = "none"
    /\ arg \in ChannelInputs
    /\ res = None

ApplyChannelToFreq ==
    /\ fn = "none"
    /\ fn' = "channel_to_freq_mhz"
    /\ res' = channel_to_freq_mhz(arg)
    /\ UNCHANGED <<variant, arg, samplerVars>>

NextFreq == ApplyChannelToFreq

SpecFreq == InitFreq /\ [][NextFreq]_vars

FiveGHzChannels ==
    {36 + 4 * i : i \in 0..7} \cup {100 + 4 * i : i \in 0..11}
        \cup {149 + 4 * i : i \in 0..4}

\* the frequency the contract gives channel number n
ContractFreq(n) ==
    IF n \in 1..14 THEN Real(2407 + 5 * n)
    ELSE IF n \in FiveGHzChannels THEN Real(5000 + 5 * n)
    ELSE None

\* C16: channel_to_freq_mhz returns 2407 + 5c for c in 1..14, 5000 + 5c for
\* the listed 5 GHz channels, and None for every other integer and for text
\* that is no integer; a channel given as text converts as its integer does.
C16_ChannelToFreqTotal ==
    fn = "channel_to_freq_mhz" =>
        /\ arg.k = "int" => res = ContractFreq(arg.v)
        /\ \A p \in ChannelTexts : arg = TextArg(p[1]) => res = ContractFreq(p[2])
        /\ (arg.k = "text" /\ arg.v \in NonNumericTexts) => res = None
        /\ res # Real(0)

\* an unlisted channel between the 5 GHz groups came back as None
C16_Witness ==
    /\ fn = "channel_to_freq_mhz"
    /\ arg = IntArg(68)
    /\ res = None

(***************************************************************************)
(* dbm_to_snr and snr_to_srri on their own, and inside the merge loop of   *)
(* the two scripts that keep the derived series.                           *)
(***************************************************************************)
MaxMetric == 130

MetricInputs == {Real(x) : x \in (0 - MaxMetric)..MaxMetric} \cup {None}

InitMetric ==
    /\ variant \in {"signaali", "signal3"}
    /\ SamplerAtRest
    /\ fn = "none"
    /\ arg \in MetricInputs
    /\ res = None

\* snr = dbm_to_snr(dbm)
ApplyDbmToSnr ==
    /\ fn = "none"
    /\ fn' = "dbm_to_snr"
    /\ res' = dbm_to_snr(arg)
    /\ UNCHANGED <<variant, arg, samplerVars>>

\* srri = snr_to_srri(snr), for any number as snr
ApplySnrToSrri ==
    /\ fn = "none"
    /\ arg.k = "real"
    /\ fn' = "snr_to_srri"
    /\ res' = snr_to_srri(arg)
    /\ UNCHANGED <<variant, arg, samplerVars>>

\* one tick's merge of a scan that lists network A with arg as its dbm
MergeReading ==
    /\ fn = "none"
    /\ fn' = "merge"
    /\ res' = arg
    /\ time_axis' = AxisAfterTick(variant, time_axis, t)
    /\ LET st == MergedStore(variant,
                     <<[ssid |-> "A", dbm |-> arg, freq_mhz |-> Real(2437)]>>)
       IN /\ history_rssi' = st.rssi
          /\ history_snr' = st.snr
          /\ history_srri' = st.srri
          /\ history_freq' = st.freq
          /\ keys' = st.keys
    /\ UNCHANGED <<variant, arg, stop_event, spc, nets, scan_ok, t, ticks, lock,
                   ghostVars, consumerVars, mpc>>

\* the next tick's merge, of a scan that lists nothing
MergeNothing ==
    /\ fn = "merge"
    /\ fn' = "merge2"
    /\ time_axis' = AxisAfterTick(variant, time_axis, t + SleepMs(variant))
    /\ LET st == MergedStore(variant, <<>>)
       IN /\ history_rssi' = st.rssi
          /\ history_snr' = st.snr
          /\ history_srri' = st.srri
          /\ history_freq' = st.freq
          /\ keys' = st.keys
    /\ UNCHANGED <<variant, arg, res, stop_event, spc, nets, scan_ok, t, ticks,
                   lock, ghostVars, consumerVars, mpc>>

NextMetric == ApplyDbmToSnr \/ ApplySnrToSrri \/ MergeReading \/ MergeNothing

SpecMetric == InitMetric /\ [][NextMetric]_vars

\* C17: dbm_to_snr(d) is max(0, d + 100) and 0 for None; snr_to_srri returns a
\* ratio within [0, 100] for every number (0 up to snr 0, 100 from snr 70),
\* ratios being kept as sevenths; and every point of the snr and srri series
\* that is no absent marker lies in those ranges.
C17_MetricRanges ==
    /\ fn = "dbm_to_snr" =>
          res = IF arg.k = "real" THEN Real(Max(0, arg.v + 100)) ELSE Real(0)
    /\ fn = "snr_to_srri" =>
          /\ res.k = "real"
          /\ 0 <= res.v /\ res.v <= 100 * 7
          /\ arg.v <= 0 => res.v = 0
          /\ arg.v >= 70 => res.v = 100 * 7
    /\ \A s \in Ssids :
          /\ \A i \in 1..Len(history_snr[s]) :
                history_snr[s][i] # NaN =>
                    (history_snr[s][i].k = "real" /\ history_snr[s][i].v >= 0)
          /\ \A i \in 1..Len(history_srri[s]) :
                history_srri[s][i] # NaN =>
                    /\ history_srri[s][i].k = "real"
                    /\ 0 <= history_srri[s][i].v
                    /\ history_srri[s][i].v <= 100 * 7

\* a reading above -30 dBm was merged and its ratio point is the full 100
C17_Witness ==
    /\ fn = "merge2"
    /\ arg.k = "real"
    /\ arg.v + 100 > 70
    /\ history_snr["A"] = <<Real(arg.v + 100), NaN>>
    /\ history_srri["A"] = <<Real(100 * 7), NaN>>

(***************************************************************************)
(* Scan output as text: a sequence of lines, each a sequence of characters.*)
(***************************************************************************)
ToLower ==
    ("A" :> "a") @@ ("B" :> "b") @@ ("C" :> "c") @@ ("D" :> "d") @@ ("E" :> "e") @@
    ("F" :> "f") @@ ("G" :> "g") @@ ("H" :> "h") @@ ("I" :> "i") @@ ("J" :> "j") @@
    ("K" :> "k") @@ ("L" :> "l") @@ ("M" :> "m") @@ ("N" :> "n") @@ ("O" :> "o") @@
    ("P" :> "p") @@ ("Q" :> "q") @@ ("R" :> "r") @@ ("S" :> "s") @@ ("T" :> "t") @@
    ("U" :> "u") @@ ("V" :> "v") @@ ("W" :> "w") @@ ("X" :> "x") @@ ("Y" :> "y") @@
    ("Z" :> "z")

\* str.lower()
Lower(s) == [i \in 1..Len(s) |-> IF s[i] \in DOMAIN ToLower THEN ToLower[s[i]] ELSE s[i]]

\* str.startswith / str.endswith / "sub in s"
StartsWith(s, p) == Len(s) >= Len(p) /\ SubSeq(s, 1, Len(p)) = p
EndsWith(s, p) == Len(s) >= Len(p) /\ SubSeq(s, Len(s) - Len(p) + 1, Len(s)) = p
Contains(s, sub) ==
    \E i \in 1..(Len(s) - Len(sub) + 1) : SubSeq(s, i, i + Len(sub) - 1) = sub

\* ' '.join(parts)
RECURSIVE JoinSpace(_)
JoinSpace(parts) ==
    IF parts = <<>> THEN <<>>
    ELSE IF Len(parts) = 1 THEN parts[1]
    ELSE parts[1] \o <<" ">> \o JoinSpace(Tail(parts))

\* the last index of the run of blanks that starts at i
RECURSIVE SpaceRunEnd(_, _)
SpaceRunEnd(s, i) ==
    IF i < Len(s) /\ IsSpace(s[i + 1]) THEN SpaceRunEnd(s, i + 1) ELSE i

\* re.split(r'\s{2,}', s): cut at every run of two or more blanks
RECURSIVE SplitFrom(_, _, _, _)
SplitFrom(s, i, cur, parts) ==
    IF i > Len(s) THEN Append(parts, cur)
    ELSE IF IsSpace(s[i]) /\ i < Len(s) /\ IsSpace(s[i + 1])
         THEN SplitFrom(s, SpaceRunEnd(s, i) + 1, <<>>, Append(parts, cur))
         ELSE SplitFrom(s, i + 1, Append(cur, s[i]), parts)

SplitWide(s) == SplitFrom(s, 1, <<>>, <<>>)

\* [f(x) for x in q if keep(x)] with f = strip, keep = non-blank
RECURSIVE StripNonBlank(_)
StripNonBlank(q) ==
    IF q = <<>> THEN <<>>
    ELSE IF Strip(q[1]) = <<>> THEN StripNonBlank(Tail(q))
    ELSE <<Strip(q[1])>> \o StripNonBlank(Tail(q))

StripEach(q) == [i \in 1..Len(q) |-> Strip(q[i])]

RECURSIVE DropLeadingBlank(_)
DropLeadingBlank(ls) ==
    IF ls # <<>> /\ Strip(ls[1]) = <<>> THEN DropLeadingBlank(Tail(ls)) ELSE ls

RECURSIVE DropTrailingBlank(_)
DropTrailingBlank(ls) ==
    IF ls # <<>> /\ Strip(ls[Len(ls)]) = <<>>
    THEN DropTrailingBlank(SubSeq(ls, 1, Len(ls) - 1))
    ELSE ls

\* output.strip().splitlines()
StrippedLines(ls) ==
    LET kept == DropTrailingBlank(DropLeadingBlank(ls))
        n == Len(kept)
    IN [i \in 1..n |->
          IF i = 1 /\ i = n THEN Strip(kept[i])
          ELSE IF i = 1 THEN LStrip(kept[i])
          ELSE IF i = n THEN RStrip(kept[i])
          ELSE kept[i]]

\* the group of re.search(r'(\d+)$', token): the digits the token ends in
RECURSIVE TrailingDigits(_)
TrailingDigits(s) ==
    IF s # <<>> /\ s[Len(s)] \in DigitChars
    THEN Append(TrailingDigits(SubSeq(s, 1, Len(s) - 1)), s[Len(s)])
    ELSE <<>>

\* the digits s starts with
RECURSIVE LeadingDigits(_)
LeadingDigits(s) ==
    IF s # <<>> /\ s[1] \in DigitChars THEN <<s[1]>> \o LeadingDigits(Tail(s)) ELSE <<>>

\* the group of re.search(r'(\d+)', s): the first run of digits in s
RECURSIVE FirstDigits(_)
FirstDigits(s) ==
    IF s = <<>> THEN <<>>
    ELSE IF s[1] \in DigitChars THEN LeadingDigits(s)
    ELSE FirstDigits(Tail(s))

\* A number read from text, kept exactly in thousandths: a whole number x is
\* Real(x), any other value carries its thousandths.
Num(m) == IF m % 1000 = 0 THEN Real(m \div 1000) ELSE [k |-> "milli", v |-> m]
Millis(x) == IF x.k = "milli" THEN x.v ELSE 1000 * x.v

Str(s) == [k |-> "str", v |-> s]
HiddenName == <<"<", "h", "i", "d", "d", "e", "n", ">">>

Raised == [raised |-> TRUE, out |-> <<>>]
Returned(out) == [raised |-> FALSE, out |-> out]

\* float(text) for plain decimal text: blanks around, one sign, digits with
\* at most one point; the value in thousandths.  Anything else raises.
FloatOfText(s) ==
    LET b == Strip(s)
        signed == b # <<>> /\ b[1] \in {"-", "+"}
        ds == IF signed THEN Tail(b) ELSE b
        dots == {i \in 1..Len(ds) : ds[i] = "."}
        dot == IF dots = {} THEN Len(ds) + 1 ELSE CHOOSE i \in dots : TRUE
        ip == SubSeq(ds, 1, dot - 1)
        fp == SubSeq(ds, dot + 1, Len(ds))
        ok == /\ Cardinality(dots) <= 1
              /\ ip \o fp # <<>>
              /\ \A i \in 1..Len(ip) : ip[i] \in DigitChars
              /\ \A i \in 1..Len(fp) : fp[i] \in DigitChars
        m == 1000 * DigitsValue(ip) + DigitsValue(SubSeq(fp \o <<"0", "0", "0">>, 1, 3))
    IN IF ok THEN [ok |-> TRUE, v |-> IF signed /\ b[1] = "-" THEN 0 - m ELSE m]
       ELSE [ok |-> FALSE, v |-> 0]

SetMin(S) == CHOOSE x \in S : \A y \in S : x <= y

\* dbm = (sig / 100.0) * 50.0 - 100.0, sig in thousandths
PctToDbm(sigm) == Num((sigm \div 2) - 100000)

\* wifi.py parse_nmcli: dbm = sig - 100
PctToDbmWifi(sigm) == Num(sigm - 100000)

NoRow == [skip |-> TRUE, raised |-> FALSE, obs |-> <<>>]
RowRaises == [skip |-> TRUE, raised |-> TRUE, obs |-> <<>>]
Row(ssid, freq, dbm) ==
    [skip |-> FALSE, raised |-> FALSE,
     obs |-> [ssid |-> ssid, freq_mhz |-> freq, dbm |-> dbm]]

NameOrHidden(s) == IF s = <<>> THEN Str(HiddenName) ELSE Str(s)

\* the test of parse_nmcli that takes a token as the signal
NmcliSigToken(v, token, parts) ==
    LET m == TrailingDigits(token)
    IN /\ m # <<>>
       /\ CASE v = "aalto" ->
                 \/ EndsWith(token, <<"%">>)
                 \/ /\ DigitsValue(m) <= 100
                    /\ Contains(Lower(JoinSpace(parts)), <<"s", "i", "g", "n", "a", "l">>)
            [] v = "signal3" -> EndsWith(token, <<"%">>) \/ DigitsValue(m) <= 100
            [] OTHER -> EndsWith(token, <<"%">>)

\* the header test of parse_nmcli
NmcliHeader(v, line, parts) ==
    CASE v = "signal1" -> StartsWith(line, <<"S", "S", "I", "D">>)
      [] v = "signal3" -> parts # <<>> /\ StartsWith(Lower(parts[1]), <<"s", "s", "i", "d">>)
      [] OTHER ->
           /\ parts # <<>>
           /\ \/ StartsWith(Lower(parts[1]), <<"s", "s", "i", "d">>)
              \/ StartsWith(Lower(parts[1]), <<"i", "n", "-", "u", "s", "e">>)

\* one pass of the loop of parse_nmcli in aalto.py, signal1.py, signal3.py
NmcliRow(v, line) ==
    LET parts == StripNonBlank(SplitWide(line))
        tokens == Tail(parts)
        chans == {i \in 1..Len(tokens) : AllDigits(tokens[i])}
        sigs == {i \in 1..Len(tokens) : NmcliSigToken(v, tokens[i], parts)}
        freq == IF chans = {} THEN None
                ELSE channel_to_freq_mhz(IntArg(DigitsValue(tokens[SetMax(chans)])))
        dbm == IF sigs = {} THEN None
               ELSE PctToDbm(1000 * DigitsValue(TrailingDigits(tokens[SetMax(sigs)])))
    IN IF Strip(line) = <<>> \/ parts = <<>> \/ NmcliHeader(v, line, parts) THEN NoRow
       ELSE Row(NameOrHidden(parts[1]), freq, dbm)

\* one pass of the loop of parse_nmcli in wifi.py
NmcliRowWifi(line) ==
    LET parts == StripEach(SplitWide(line))
        tokens == Tail(parts)
        chans == {i \in 1..Len(tokens) : AllDigits(tokens[i])}
        last == FirstDigits(parts[Len(parts)])
        freq == IF chans = {} THEN None
                ELSE channel_to_freq_mhz(IntArg(DigitsValue(tokens[SetMin(chans)])))
        dbm == IF Len(parts) >= 3 /\ last # <<>>
               THEN PctToDbmWifi(1000 * DigitsValue(last))
               ELSE None
    IN IF Strip(line) = <<>> \/ NmcliHeader("wifi", line, parts) THEN NoRow
       ELSE Row(Str(parts[1]), freq, dbm)

\* one pass of the loop over the nmcli rows in scan_wifi of signaali.py
NmcliRowSignaali(line) ==
    LET parts == SplitWide(Strip(line))
        ch == IntOfText(parts[2])
        sig == FloatOfText(parts[3])
    IN IF Len(parts) < 3 THEN NoRow
       ELSE IF ~ch.ok \/ ~sig.ok THEN RowRaises
       ELSE Row(NameOrHidden(parts[1]), channel_to_freq_mhz(IntArg(ch.v)), PctToDbm(sig.v))

\* the rows of a loop put together: the list of records, or the exception
RECURSIVE Collect(_)
Collect(rows) ==
    IF rows = <<>> THEN Returned(<<>>)
    ELSE IF rows[1].raised THEN Raised
    ELSE LET rest == Collect(Tail(rows))
         IN IF rest.raised THEN Raised
            ELSE IF rows[1].skip THEN rest
            ELSE Returned(<<rows[1].obs>> \o rest.out)

\* parse_nmcli(output), and for signaali.py the nmcli branch of scan_wifi,
\* whose "except Exception: return []" turns an exception into no networks
parse_nmcli(v, text) ==
    LET lines == StrippedLines(text)
    IN CASE v = "signaali" ->
              Collect([i \in 1..(Len(lines) - 1) |-> NmcliRowSignaali(lines[i + 1])])
         [] v = "wifi" -> Collect([i \in 1..Len(lines) |-> NmcliRowWifi(lines[i])])
         [] OTHER -> Collect([i \in 1..Len(lines) |-> NmcliRow(v, lines[i])])

\* re.match(r'^\d{1,3}(?:,.*)?$', token)
AirportChanToken(token) ==
    LET d == LeadingDigits(token)
    IN /\ Len(d) \in 1..3
       /\ Len(token) > Len(d) => token[Len(d) + 1] = ","

\* re.match(r'^-?\d+\s*$', token) and -120 < int(token.strip()) < 0
AirportRssiToken(token) ==
    LET b == RStrip(token)
        ds == IF b # <<>> /\ b[1] = "-" THEN Tail(b) ELSE b
    IN /\ AllDigits(ds)
       /\ -120 < IntOfText(b).v
       /\ IntOfText(b).v < 0

\* one pass of the loop of parse_airport: aalto.py keeps the last token of
\* each kind, wifi.py breaks at the first and wants three parts
AirportRow(v, line) ==
    LET parts == SplitWide(Strip(line))
        chans == {i \in 1..Len(parts) : AirportChanToken(parts[i])}
        sigs == {i \in 1..Len(parts) : AirportRssiToken(parts[i])}
        pick(S) == IF v = "aalto" THEN SetMax(S) ELSE SetMin(S)
        ch == IF chans = {} THEN 0 ELSE DigitsValue(LeadingDigits(parts[pick(chans)]))
        freq == IF ch = 0 THEN None ELSE channel_to_freq_mhz(IntArg(ch))
        dbm == IF sigs = {} THEN None ELSE Real(IntOfText(parts[pick(sigs)]).v)
    IN IF Strip(line) = <<>> THEN NoRow
       ELSE IF v = "wifi" /\ Len(parts) < 3 THEN NoRow
       ELSE Row(Str(parts[1]), freq, dbm)

\* parse_airport(output): output.splitlines(), the first line is the header
parse_airport(v, text) ==
    Collect([i \in 1..(Len(text) - 1) |-> AirportRow(v, text[i + 1])])

(***************************************************************************)
(* The parsers on their own: arg is a scan output, fn the parser applied   *)
(* to it, res what the caller of the parser received.                      *)
(***************************************************************************)
RECURSIVE JoinWith(_, _)
JoinWith(fields, gap) ==
    IF fields = <<>> THEN <<>>
    ELSE IF Len(fields) = 1 THEN fields[1]
    ELSE fields[1] \o gap \o JoinWith(Tail(fields), gap)

Gap2 == <<" ", " ">>
Gap4 == <<" ", " ", " ", " ">>
NameMyNet == <<"M", "y", "N", "e", "t">>
NameMySpaceNet == <<"M", "y", " ", "N", "e", "t">>
NameCafe == <<"C", "a", "f", "e">>
NameSignal == <<"S", "i", "g", "n", "a", "l">>

\* "SSID  CHAN  SIGNAL", the header of nmcli -f SSID,CHAN,SIGNAL
HeaderNmcli ==
    JoinWith(<<<<"S", "S", "I", "D">>, <<"C", "H", "A", "N">>,
               <<"S", "I", "G", "N", "A", "L">>>>, Gap2)
\* "MyNet    6    80"
RowMyNet == JoinWith(<<NameMyNet, <<"6">>, <<"8", "0">>>>, Gap4)
\* "MyNet  6  80%"
RowMyNetPct == JoinWith(<<NameMyNet, <<"6">>, <<"8", "0", "%">>>>, Gap2)
\* "My Net  11  75"
RowMySpaceNet == JoinWith(<<NameMySpaceNet, <<"1", "1">>, <<"7", "5">>>>, Gap2)
\* "Cafe  36  100"
RowCafe == JoinWith(<<NameCafe, <<"3", "6">>, <<"1", "0", "0">>>>, Gap2)
\* "Cafe  1  0"
RowCafeZero == JoinWith(<<NameCafe, <<"1">>, <<"0">>>>, Gap2)
\* "Signal  6  80": a network whose name holds the word signal
RowSignal == JoinWith(<<NameSignal, <<"6">>, <<"8", "0">>>>, Gap2)
\* "Cafe  x  80": a channel column that is no number
RowBadChan == JoinWith(<<NameCafe, <<"x">>, <<"8", "0">>>>, Gap2)
\* "  6  80": an empty name column
RowNoName == JoinWith(<<<<>>, <<"6">>, <<"8", "0">>>>, Gap2)
\* "Cafe  6": no signal column
RowTwoCols == JoinWith(<<NameCafe, <<"6">>>>, Gap2)
\* a blank line
RowBlank == <<" ", " ", " ">>
\* "SSID  RSSI  CHANNEL", a header of airport -s
HeaderAirport ==
    JoinWith(<<<<"S", "S", "I", "D">>, <<"R", "S", "S", "I">>,
               <<"C", "H", "A", "N", "N", "E", "L">>>>, Gap2)
\* "MyNet  -60  11"
RowAirport == JoinWith(<<NameMyNet, <<"-", "6", "0">>, <<"1", "1">>>>, Gap2)
\* "MyNet  -60  11  -70  36": two tokens of each shape
RowAirportTwo ==
    JoinWith(<<NameMyNet, <<"-", "6", "0">>, <<"1", "1">>, <<"-", "7", "0">>,
               <<"3", "6">>>>, Gap2)
\* "Cafe  -70  36,1"
RowAirportHt == JoinWith(<<NameCafe, <<"-", "7", "0">>, <<"3", "6", ",", "1">>>>, Gap2)

TableLines ==
    {HeaderNmcli, RowMyNet, RowMyNetPct, RowMySpaceNet, RowCafe, RowCafeZero,
     RowSignal, RowBadChan, RowNoName, RowTwoCols, RowBlank,
     HeaderAirport, RowAirport, RowAirportTwo, RowAirportHt}

MaxLines == 3

TableTexts == UNION {[1..n -> TableLines] : n \in 1..MaxLines}

\* a whole number written in decimal
DigitChar == <<"1", "2", "3", "4", "5", "6", "7", "8", "9">>
RECURSIVE Decimal(_)
Decimal(n) ==
    LET last == IF n % 10 = 0 THEN "0" ELSE DigitChar[n % 10]
    IN IF n < 10 THEN <<last>> ELSE Append(Decimal(n \div 10), last)

MaxPct == 100

\* "Signal  6  p": a row whose signal column is p, under the header row
PctRow(p) == JoinWith(<<NameSignal, <<"6">>, Decimal(p)>>, Gap2)
PctTexts == {<<HeaderNmcli, PctRow(p)>> : p \in 0..MaxPct}

(***************************************************************************)
(* The block dialects: iwlist cells and netsh SSID blocks.  Here a scan    *)
(* output is one sequence of characters with "\n" between its lines.       *)
(***************************************************************************)
\* lit stands in s at index i
LitAt(s, i, lit) ==
    /\ i >= 1
    /\ i + Len(lit) - 1 <= Len(s)
    /\ SubSeq(s, i, i + Len(lit) - 1) = lit

\* the index after the longest run of characters of cs that starts at i
RECURSIVE RunWhile(_, _, _)
RunWhile(s, i, cs) ==
    IF i <= Len(s) /\ s[i] \in cs THEN RunWhile(s, i + 1, cs) ELSE i

\* \s*
SkipSpace(s, i) == RunWhile(s, i, {" ", "\n"})

NoMatch == [found |-> FALSE, group |-> <<>>, end |-> 0]
Match(group, end) == [found |-> TRUE, group |-> group, end |-> end]

\* re.search: the match at the leftmost index where at(i) matches
Leftmost(s, at(_)) ==
    LET hits == {i \in 1..Len(s) : at(i).found}
    IN IF hits = {} THEN NoMatch ELSE at(SetMin(hits))

WordCell == <<"C", "e", "l", "l", " ">>
WordSsid == <<"S", "S", "I", "D">>
WordEssid == <<"E", "S", "S", "I", "D", ":", "\"">>
WordFrequency == <<"F", "r", "e", "q", "u", "e", "n", "c", "y", ":">>
WordGHz == <<"G", "H", "z">>
WordMHz == <<"M", "H", "z">>
WordChannel == <<"C", "h", "a", "n", "n", "e", "l">>
WordSignal == <<"S", "i", "g", "n", "a", "l">>
WordSignalLevel == <<"S", "i", "g", "n", "a", "l", " ", "l", "e", "v", "e", "l">>
WordDbm == <<"d", "B", "m">>

\* r'Cell \d+ - ' at i
CellDelimAt(s, i) ==
    LET j == RunWhile(s, i + Len(WordCell), DigitChars)
    IN IF LitAt(s, i, WordCell) /\ j > i + Len(WordCell) /\ LitAt(s, j, <<" ", "-", " ">>)
       THEN Match(<<>>, j + 3)
       ELSE NoMatch

\* r'\r?\n\s*SSID\s+\d+\s*:\s*' at i
SsidDelimAt(s, i) ==
    LET a == SkipSpace(s, i + 1)
        b == SkipSpace(s, a + Len(WordSsid))
        c == RunWhile(s, b, DigitChars)
        d == SkipSpace(s, c)
    IN IF /\ s[i] = "\n"
          /\ LitAt(s, a, WordSsid)
          /\ b > a + Len(WordSsid)
          /\ c > b
          /\ LitAt(s, d, <<":">>)
       THEN Match(<<>>, SkipSpace(s, d + 1))
       ELSE NoMatch

DelimAt(kind, s, i) == IF kind = "cell" THEN CellDelimAt(s, i) ELSE SsidDelimAt(s, i)

\* re.split(delimiter, s): the text is cut at the leftmost delimiter at or
\* after start, and the search goes on where that delimiter ends
RECURSIVE SplitAt(_, _, _, _)
SplitAt(kind, s, hits, start) ==
    LET next == {i \in hits : i >= start}
    IN IF next = {} THEN <<SubSeq(s, start, Len(s))>>
       ELSE <<SubSeq(s, start, SetMin(next) - 1)>>
            \o SplitAt(kind, s, hits, DelimAt(kind, s, SetMin(next)).end)

SplitOn(kind, s) ==
    SplitAt(kind, s, {i \in 1..Len(s) : DelimAt(kind, s, i).found}, 1)

\* str.splitlines(): the pieces between the line ends, without an empty
\* piece after the last line end
SplitLines(s) ==
    LET ends == {i \in 1..Len(s) : s[i] = "\n"}
        open == IF s # <<>> /\ s[Len(s)] # "\n" THEN 1 ELSE 0
        nth(k) == IF k = 0 THEN 0
                  ELSE IF k > Cardinality(ends) THEN Len(s) + 1
                  ELSE CHOOSE x \in ends : Cardinality({y \in ends : y < x}) = k - 1
    IN [k \in 1..(Cardinality(ends) + open) |-> SubSeq(s, nth(k - 1) + 1, nth(k) - 1)]

\* r'ESSID:"([^"]*)"' at i
EssidAt(s, i) ==
    LET a == i + Len(WordEssid)
        closing == {j \in a..Len(s) : s[j] = "\""}
    IN IF LitAt(s, i, WordEssid) /\ closing # {}
       THEN Match(SubSeq(s, a, SetMin(closing) - 1), SetMin(closing) + 1)
       ELSE NoMatch

\* r'Frequency:([0-9.]+)\s*GHz' at i
FrequencyAt(s, i) ==
    LET a == i + Len(WordFrequency)
        b == RunWhile(s, a, DigitChars \cup {"."})
        c == SkipSpace(s, b)
    IN IF LitAt(s, i, WordFrequency) /\ b > a /\ LitAt(s, c, WordGHz)
       THEN Match(SubSeq(s, a, b - 1), c + Len(WordGHz))
       ELSE NoMatch

\* r'Channel[:=]?\s*([0-9]+)' at i
ChannelAt(s, i) ==
    LET a == i + Len(WordChannel)
        b == IF a <= Len(s) /\ s[a] \in {":", "="} THEN a + 1 ELSE a
        c == SkipSpace(s, b)
        d == RunWhile(s, c, DigitChars)
    IN IF LitAt(s, i, WordChannel) /\ d > c THEN Match(SubSeq(s, c, d - 1), d) ELSE NoMatch

\* r'Signal level[=\:]\s*([-\d]+)\s*dBm' at i
SignalLevelAt(s, i) ==
    LET a == i + Len(WordSignalLevel)
        b == SkipSpace(s, a + 1)
        c == RunWhile(s, b, DigitChars \cup {"-"})
        d == SkipSpace(s, c)
    IN IF /\ LitAt(s, i, WordSignalLevel)
          /\ a <= Len(s) /\ s[a] \in {"=", ":"}
          /\ c > b
          /\ LitAt(s, d, WordDbm)
       THEN Match(SubSeq(s, b, c - 1), d + Len(WordDbm))
       ELSE NoMatch

\* r'([0-9]{3,4})\s*MHz' at i: four digits are tried before three
MHzAt(s, i) ==
    LET try(n) ==
            /\ i + n - 1 <= Len(s)
            /\ \A j \in i..(i + n - 1) : s[j] \in DigitChars
            /\ LitAt(s, SkipSpace(s, i + n), WordMHz)
    IN IF try(4) THEN Match(SubSeq(s, i, i + 3), 0)
       ELSE IF try(3) THEN Match(SubSeq(s, i, i + 2), 0)
       ELSE NoMatch

\* r'Channel\s*:\s*(\d+)' at i
NetshChannelAt(s, i) ==
    LET a == SkipSpace(s, i + Len(WordChannel))
        b == SkipSpace(s, a + 1)
        c == RunWhile(s, b, DigitChars)
    IN IF LitAt(s, i, WordChannel) /\ LitAt(s, a, <<":">>) /\ c > b
       THEN Match(SubSeq(s, b, c - 1), c)
       ELSE NoMatch

\* r'Signal\s*:\s*([0-9]+)%' at i
NetshSignalAt(s, i) ==
    LET a == SkipSpace(s, i + Len(WordSignal))
        b == SkipSpace(s, a + 1)
        c == RunWhile(s, b, DigitChars)
    IN IF LitAt(s, i, WordSignal) /\ LitAt(s, a, <<":">>) /\ c > b /\ LitAt(s, c, <<"%">>)
       THEN Match(SubSeq(s, b, c - 1), c + 1)
       ELSE NoMatch

\* one cell of parse_iwlist
IwlistCell(v, c) ==
    LET ssid_m == Leftmost(c, LAMBDA i : EssidAt(c, i))
        freq_m == Leftmost(c, LAMBDA i : FrequencyAt(c, i))
        ch_m == Leftmost(c, LAMBDA i : ChannelAt(c, i))
        dbm_m == Leftmost(c, LAMBDA i : SignalLevelAt(c, i))
        f == Leftmost(c, LAMBDA i : MHzAt(c, i))
        ghz == FloatOfText(freq_m.group)
        level == FloatOfText(dbm_m.group)
        ssid == IF ssid_m.found THEN Str(ssid_m.group)
                ELSE IF v = "wifi" THEN None
                ELSE Str(HiddenName)
        freq == IF freq_m.found THEN Real(ghz.v)
                ELSE IF ch_m.found THEN channel_to_freq_mhz(IntArg(DigitsValue(ch_m.group)))
                ELSE IF v = "wifi" /\ ssid_m.found /\ ssid_m.group # <<>> /\ f.found
                     THEN Real(DigitsValue(f.group))
                ELSE None
        dbm == IF dbm_m.found THEN Num(level.v) ELSE None
    IN IF Strip(c) = <<>> THEN NoRow
       ELSE IF (freq_m.found /\ ~ghz.ok) \/ (dbm_m.found /\ ~level.ok) THEN RowRaises
       ELSE Row(ssid, freq, dbm)

\* parse_iwlist(output) of aalto.py and wifi.py
parse_iwlist(v, text) ==
    LET cells == SplitOn("cell", text)
    IN Collect([i \in 1..Len(cells) |-> IwlistCell(v, cells[i])])

\* one block of parse_netsh; wifi.py reads lines[0] without looking whether
\* the block has a line, and keeps an empty name
NetshBlock(v, blk) ==
    LET lines == SplitLines(blk)
        chans == {i \in 2..Len(lines) : Leftmost(lines[i], LAMBDA j : NetshChannelAt(lines[i], j)).found}
        sigs == {i \in 2..Len(lines) : Leftmost(lines[i], LAMBDA j : NetshSignalAt(lines[i], j)).found}
        mchan == Leftmost(lines[SetMax(chans)], LAMBDA j : NetshChannelAt(lines[SetMax(chans)], j))
        msignal == Leftmost(lines[SetMax(sigs)], LAMBDA j : NetshSignalAt(lines[SetMax(sigs)], j))
        channel == IF chans = {} THEN 0 ELSE DigitsValue(mchan.group)
        ssid == IF v = "wifi" THEN Str(Strip(lines[1])) ELSE NameOrHidden(Strip(lines[1]))
        freq == IF channel # 0 THEN channel_to_freq_mhz(IntArg(channel)) ELSE None
        dbm == IF sigs = {} THEN None ELSE PctToDbm(1000 * DigitsValue(msignal.group))
    IN IF lines = <<>> THEN (IF v = "wifi" THEN RowRaises ELSE NoRow)
       ELSE Row(ssid, freq, dbm)

\* parse_netsh(output), the same in the four samplers, stricter in wifi.py
parse_netsh(v, text) ==
    LET ssid_blocks == SplitOn("ssid", text)
    IN Collect([i \in 1..(Len(ssid_blocks) - 1) |-> NetshBlock(v, ssid_blocks[i + 1])])

(***************************************************************************)
(* Scan outputs in the block dialects.                                     *)
(***************************************************************************)
\* the line iwlist prints before the first cell:
\*   wlan0  Scan completed :
IwPreamble ==
    <<"w", "l", "a", "n", "0", " ", " ", "S", "c", "a", "n", " ", "c", "o",
      "m", "p", "l", "e", "t", "e", "d", " ", ":", "\n">>

\* a cell with channel, frequency, level and name:
\*   Cell 01 - Address: AA
\*     Channel:6
\*     Frequency:2.437 GHz (Channel 6)
\*     Signal level=-40 dBm
\*     ESSID:"MyNet"
CellMyNet ==
    <<"C", "e", "l", "l", " ", "0", "1", " ", "-", " ", "A", "d", "d", "r",
      "e", "s", "s", ":", " ", "A", "A", "\n", " ", " ", "C", "h", "a", "n",
      "n", "e", "l", ":", "6", "\n", " ", " ", "F", "r", "e", "q", "u", "e",
      "n", "c", "y", ":", "2", ".", "4", "3", "7", " ", "G", "H", "z", " ",
      "(", "C", "h", "a", "n", "n", "e", "l", " ", "6", ")", "\n", " ", " ",
      "S", "i", "g", "n", "a", "l", " ", "l", "e", "v", "e", "l", "=", "-",
      "4", "0", " ", "d", "B", "m", "\n", " ", " ", "E", "S", "S", "I", "D",
      ":", "\"", "M", "y", "N", "e", "t", "\"", "\n">>

\* a cell of a network that broadcasts an empty name:
\*   Cell 02 - Address: BB
\*     Frequency:5.18 GHz
\*     Signal level=-70 dBm
\*     ESSID:""
CellNoName ==
    <<"C", "e", "l", "l", " ", "0", "2", " ", "-", " ", "A", "d", "d", "r",
      "e", "s", "s", ":", " ", "B", "B", "\n", " ", " ", "F", "r", "e", "q",
      "u", "e", "n", "c", "y", ":", "5", ".", "1", "8", " ", "G", "H", "z",
      "\n", " ", " ", "S", "i", "g", "n", "a", "l", " ", "l", "e", "v", "e",
      "l", "=", "-", "7", "0", " ", "d", "B", "m", "\n", " ", " ", "E", "S",
      "S", "I", "D", ":", "\"", "\"", "\n">>

\* a cell with a channel and no frequency or level:
\*   Cell 03 - Address: CC
\*     Channel:36
\*     ESSID:"Cafe"
CellChanOnly ==
    <<"C", "e", "l", "l", " ", "0", "3", " ", "-", " ", "A", "d", "d", "r",
      "e", "s", "s", ":", " ", "C", "C", "\n", " ", " ", "C", "h", "a", "n",
      "n", "e", "l", ":", "3", "6", "\n", " ", " ", "E", "S", "S", "I", "D",
      ":", "\"", "C", "a", "f", "e", "\"", "\n">>

\* a cell without an ESSID line, its level not in dBm:
\*   Cell 04 - Address: DD
\*     Channel:11
\*     Signal level=70/100
CellNoEssid ==
    <<"C", "e", "l", "l", " ", "0", "4", " ", "-", " ", "A", "d", "d", "r",
      "e", "s", "s", ":", " ", "D", "D", "\n", " ", " ", "C", "h", "a", "n",
      "n", "e", "l", ":", "1", "1", "\n", " ", " ", "S", "i", "g", "n", "a",
      "l", " ", "l", "e", "v", "e", "l", "=", "7", "0", "/", "1", "0", "0",
      "\n">>

\* a cell whose frequency has two points:
\*   Cell 05 - Address: EE
\*     Frequency:2.4.3 GHz
\*     ESSID:"Cafe"
CellBadFreq ==
    <<"C", "e", "l", "l", " ", "0", "5", " ", "-", " ", "A", "d", "d", "r",
      "e", "s", "s", ":", " ", "E", "E", "\n", " ", " ", "F", "r", "e", "q",
      "u", "e", "n", "c", "y", ":", "2", ".", "4", ".", "3", " ", "G", "H",
      "z", "\n", " ", " ", "E", "S", "S", "I", "D", ":", "\"", "C", "a", "f",
      "e", "\"", "\n">>

\* a cell whose level is two signs:
\*   Cell 06 - Address: FF
\*     Signal level=-- dBm
\*     ESSID:"Cafe"
CellBadLevel ==
    <<"C", "e", "l", "l", " ", "0", "6", " ", "-", " ", "A", "d", "d", "r",
      "e", "s", "s", ":", " ", "F", "F", "\n", " ", " ", "S", "i", "g", "n",
      "a", "l", " ", "l", "e", "v", "e", "l", "=", "-", "-", " ", "d", "B",
      "m", "\n", " ", " ", "E", "S", "S", "I", "D", ":", "\"", "C", "a", "f",
      "e", "\"", "\n">>

\* a cell with its frequency in MHz only:
\*   Cell 07 - Address: GG
\*     ESSID:"Cafe"
\*     2462 MHz
CellMHz ==
    <<"C", "e", "l", "l", " ", "0", "7", " ", "-", " ", "A", "d", "d", "r",
      "e", "s", "s", ":", " ", "G", "G", "\n", " ", " ", "E", "S", "S", "I",
      "D", ":", "\"", "C", "a", "f", "e", "\"", "\n", " ", " ", "2", "4",
      "6", "2", " ", "M", "H", "z", "\n">>

\* the lines netsh prints before the first block:
\*   Interface : Wi-Fi
NetshPreamble ==
    <<"\n", "I", "n", "t", "e", "r", "f", "a", "c", "e", " ", ":", " ", "W",
      "i", "-", "F", "i", "\n">>

\* a block with name, signal and channel:
\*   SSID 1 : MyNet
\*       Signal : 80%
\*       Channel : 6
BlockMyNet ==
    <<"\n", "S", "S", "I", "D", " ", "1", " ", ":", " ", "M", "y", "N", "e",
      "t", "\n", " ", " ", " ", " ", "S", "i", "g", "n", "a", "l", " ", ":",
      " ", "8", "0", "%", "\n", " ", " ", " ", " ", "C", "h", "a", "n", "n",
      "e", "l", " ", ":", " ", "6", "\n">>

\* a block of a network without a name:
\*   SSID 2 : 
\*       Signal : 75%
\*       Channel : 36
BlockNoName ==
    <<"\n", "S", "S", "I", "D", " ", "2", " ", ":", " ", "\n", " ", " ", " ",
      " ", "S", "i", "g", "n", "a", "l", " ", ":", " ", "7", "5", "%", "\n",
      " ", " ", " ", " ", "C", "h", "a", "n", "n", "e", "l", " ", ":", " ",
      "3", "6", "\n">>

\* a block without a channel line:
\*   SSID 3 : Cafe
\*       Signal : 100%
BlockNoChan ==
    <<"\n", "S", "S", "I", "D", " ", "3", " ", ":", " ", "C", "a", "f", "e",
      "\n", " ", " ", " ", " ", "S", "i", "g", "n", "a", "l", " ", ":", " ",
      "1", "0", "0", "%", "\n">>

\* a block with signal 0%:
\*   SSID 4 : Cafe
\*       Channel : 11
\*       Signal : 0%
BlockZero ==
    <<"\n", "S", "S", "I", "D", " ", "4", " ", ":", " ", "C", "a", "f", "e",
      "\n", " ", " ", " ", " ", "C", "h", "a", "n", "n", "e", "l", " ", ":",
      " ", "1", "1", "\n", " ", " ", " ", " ", "S", "i", "g", "n", "a", "l",
      " ", ":", " ", "0", "%", "\n">>

\* a block that is its SSID line only, without a name:
\*   SSID 5 : 
BlockBare ==
    <<"\n", "S", "S", "I", "D", " ", "5", " ", ":", " ", "\n">>

\* a block whose signal is not a number:
\*   SSID 6 : Cafe
\*       Signal : x%
\*       Channel : 6
BlockBadSignal ==
    <<"\n", "S", "S", "I", "D", " ", "6", " ", ":", " ", "C", "a", "f", "e",
      "\n", " ", " ", " ", " ", "S", "i", "g", "n", "a", "l", " ", ":", " ",
      "x", "%", "\n", " ", " ", " ", " ", "C", "h", "a", "n", "n", "e", "l",
      " ", ":", " ", "6", "\n">>

Cells == {CellMyNet, CellNoName, CellChanOnly, CellNoEssid, CellBadFreq, CellBadLevel, CellMHz}
Blocks == {BlockMyNet, BlockNoName, BlockNoChan, BlockZero, BlockBare, BlockBadSignal}

MaxBlocks == 2

RECURSIVE Concat(_)
Concat(parts) == IF parts = <<>> THEN <<>> ELSE parts[1] \o Concat(Tail(parts))

IwlistTexts ==
    {pre \o Concat(cs) : pre \in {<<>>, IwPreamble},
                         cs \in UNION {[1..n -> Cells] : n \in 1..MaxBlocks}}
NetshTexts ==
    {NetshPreamble \o Concat(bs) : bs \in UNION {[1..n -> Blocks] : n \in 1..MaxBlocks}}

\* a block whose signal line is "Signal : p%":
\*   SSID 1 : Cafe
\*       Signal : p%
BlockSignalHead ==
    <<"\n", "S", "S", "I", "D", " ", "1", " ", ":", " ", "C", "a", "f", "e",
      "\n", " ", " ", " ", " ", "S", "i", "g", "n", "a", "l", " ", ":", " ">>
PctBlock(p) == NetshPreamble \o BlockSignalHead \o Decimal(p) \o <<"%", "\n">>
PctBlockTexts == {PctBlock(p) : p \in 0..MaxPct}

Iwlist(text) == [dialect |-> "iwlist", text |-> text]
Netsh(text) == [dialect |-> "netsh", text |-> text]

Table(text) == [dialect |-> "table", text |-> text]

InitParse ==
    /\ variant \in Scripts
    /\ SamplerAtRest
    /\ fn = "none"
    /\ arg \in {Table(x) : x \in TableTexts \cup PctTexts}
              \cup {Iwlist(x) : x \in IwlistTexts}
              \cup {Netsh(x) : x \in NetshTexts \cup PctBlockTexts}
    /\ res = Returned(<<>>)

\* parsed = parse_nmcli(out)
ApplyParseNmcli ==
    /\ fn = "none"
    /\ arg.dialect = "table"
    /\ fn' = "parse_nmcli"
    /\ res' = parse_nmcli(variant, arg.text)
    /\ UNCHANGED <<variant, arg, samplerVars>>

\* return parse_airport(out)
ApplyParseAirport ==
    /\ fn = "none"
    /\ arg.dialect = "table"
    /\ variant \in {"aalto", "wifi"}
    /\ fn' = "parse_airport"
    /\ res' = parse_airport(variant, arg.text)
    /\ UNCHANGED <<variant, arg, samplerVars>>

\* parsed = parse_iwlist(out)
ApplyParseIwlist ==
    /\ fn = "none"
    /\ arg.dialect = "iwlist"
    /\ variant \in {"aalto", "wifi"}
    /\ fn' = "parse_iwlist"
    /\ res' = parse_iwlist(variant, arg.text)
    /\ UNCHANGED <<variant, arg, samplerVars>>

\* return parse_netsh(out)
ApplyParseNetsh ==
    /\ fn = "none"
    /\ arg.dialect = "netsh"
    /\ fn' = "parse_netsh"
    /\ res' = parse_netsh(variant, arg.text)
    /\ UNCHANGED <<variant, arg, samplerVars>>

NextParse == ApplyParseNmcli \/ ApplyParseAirport \/ ApplyParseIwlist \/ ApplyParseNetsh

SpecParse == InitParse /\ [][NextParse]_vars

\* rows of name, channel and signal percentage, with what they say
WellFormedRows ==
    {<<RowMyNet, NameMyNet, 6, 80>>,
     <<RowMySpaceNet, NameMySpaceNet, 11, 75>>,
     <<RowCafe, NameCafe, 36, 100>>,
     <<RowCafeZero, NameCafe, 1, 0>>,
     <<RowSignal, NameSignal, 6, 80>>}

\* the observation the contract gives a row <<line, name, c, p>>
ContractRow(r) ==
    [ssid |-> Str(r[2]),
     freq_mhz |-> channel_to_freq_mhz(IntArg(r[3])),
     dbm |-> Num(r[4] * 500 - 100000)]

\* C15: a text that is one row of name, channel c and percentage p, alone or
\* under the header row, parses to exactly one observation with that name,
\* the frequency of channel c and p/100*50 - 100 dBm; "MyNet    6    80"
\* gives MyNet, 2437 MHz, -60.0 dBm.
C15_ColumnRow ==
    (fn = "parse_nmcli" /\ arg.dialect = "table") =>
        /\ \A r \in WellFormedRows :
              arg.text \in {<<r[1]>>, <<HeaderNmcli, r[1]>>} =>
                  res = Returned(<<ContractRow(r)>>)
        /\ arg.text = <<RowMyNet>> =>
              res = Returned(<<[ssid |-> Str(NameMyNet), freq_mhz |-> Real(2437),
                                dbm |-> Real(-60)]>>)

\* what the contract calls channel-shaped and signal-shaped in the two table
\* dialects: a run of digits; a percentage up to 100 with or without its
\* sign; the channel and RSSI patterns of the airport table
NmcliChannelShaped(tok) == AllDigits(tok)
NmcliSignalShaped(tok) ==
    LET d == IF EndsWith(tok, <<"%">>) THEN SubSeq(tok, 1, Len(tok) - 1) ELSE tok
    IN AllDigits(d) /\ DigitsValue(d) <= 100
NmcliSignalValue(tok) == DigitsValue(LeadingDigits(tok))

\* C18: in a table row with several channel-shaped tokens the first one is
\* the channel, and with several signal-shaped tokens the last one is the
\* signal.
C18_TieBreak ==
    /\ (/\ fn = "parse_nmcli"
        /\ arg.dialect = "table"
        /\ Len(arg.text) = 2
        /\ arg.text[1] = HeaderNmcli
        /\ Len(res.out) = 1) =>
          LET tokens == Tail(StripNonBlank(SplitWide(arg.text[2])))
              chans == {i \in 1..Len(tokens) : NmcliChannelShaped(tokens[i])}
              sigs == {i \in 1..Len(tokens) : NmcliSignalShaped(tokens[i])}
          IN /\ Cardinality(chans) >= 2 =>
                   res.out[1].freq_mhz = channel_to_freq_mhz(TextArg(tokens[SetMin(chans)]))
             /\ Cardinality(sigs) >= 2 =>
                   res.out[1].dbm = PctToDbm(1000 * NmcliSignalValue(tokens[SetMax(sigs)]))
    /\ (/\ fn = "parse_airport"
        /\ arg.dialect = "table"
        /\ Len(arg.text) = 2
        /\ arg.text[1] = HeaderAirport
        /\ Len(res.out) = 1) =>
          LET tokens == Tail(SplitWide(Strip(arg.text[2])))
              chans == {i \in 1..Len(tokens) : AirportChanToken(tokens[i])}
              sigs == {i \in 1..Len(tokens) : AirportRssiToken(tokens[i])}
          IN /\ Cardinality(chans) >= 2 =>
                   res.out[1].freq_mhz =
                       channel_to_freq_mhz(IntArg(DigitsValue(LeadingDigits(tokens[SetMin(chans)]))))
             /\ Cardinality(sigs) >= 2 =>
                   res.out[1].dbm = Real(IntOfText(tokens[SetMax(sigs)]).v)

ParserNames == {"parse_nmcli", "parse_airport", "parse_iwlist", "parse_netsh"}

\* C11: no parser raises, and a malformed line or block does not cost the
\* well-formed ones of the same text their observations: under the header
\* row every well-formed row has an observation with its name in the result,
\* and so has a well-formed cell or block that follows any other one.
C11_ParsersSkipLocally ==
    fn \in ParserNames =>
        /\ ~res.raised
        /\ (fn = "parse_nmcli" /\ arg.dialect = "table" /\ arg.text[1] = HeaderNmcli) =>
              \A i \in 2..Len(arg.text) : \A r \in WellFormedRows :
                  arg.text[i] = r[1] =>
                      \E j \in 1..Len(res.out) : res.out[j].ssid = Str(r[2])
        /\ (fn = "parse_airport" /\ arg.dialect = "table" /\ arg.text[1] = HeaderAirport) =>
              \A i \in 2..Len(arg.text) :
                  arg.text[i] \in {RowAirport, RowAirportTwo} =>
                      \E j \in 1..Len(res.out) : res.out[j].ssid = Str(NameMyNet)
        /\ (fn = "parse_iwlist"
            /\ \E c \in Cells : arg.text \in {c \o CellMyNet, IwPreamble \o c \o CellMyNet}) =>
              \E j \in 1..Len(res.out) : res.out[j].ssid = Str(NameMyNet)
        /\ (fn = "parse_netsh"
            /\ \E b \in Blocks : arg.text = NetshPreamble \o b \o BlockMyNet) =>
              \E j \in 1..Len(res.out) : res.out[j].ssid = Str(NameMyNet)

\* C19: wherever a parser reads a signal percentage p in 0..100 and reports a
\* dbm for it, the dbm is p/100*50 - 100: -100 for 0, -50 for 100, within
\* [-100, -50] (values compared in thousandths).
C19_PercentMap ==
    \A p \in 0..100 :
        (/\ \/ /\ fn = "parse_nmcli"
               /\ arg.dialect = "table"
               /\ arg.text = <<HeaderNmcli, PctRow(p)>>
            \/ /\ fn = "parse_netsh"
               /\ arg = Netsh(PctBlock(p))
         /\ Len(res.out) = 1
         /\ res.out[1].dbm # None) =>
            /\ Millis(res.out[1].dbm) = 500 * p - 100000
            /\ -100000 <= Millis(res.out[1].dbm)
            /\ Millis(res.out[1].dbm) <= -50000
            /\ p = 0 => res.out[1].dbm = Real(-100)
            /\ p = 100 => res.out[1].dbm = Real(-50)

\* C12: every observation a parser returns has a name that is text and is
\* not empty (a missing or empty name has become the hidden sentinel), and
\* no key of the history store is the empty string.
C12_NonEmptyIdentity ==
    /\ fn \in ParserNames =>
          \A j \in 1..Len(res.out) :
              /\ res.out[j].ssid.k = "str"
              /\ res.out[j].ssid.v # <<>>
    /\ \A i \in 1..Len(keys) : keys[i] # ""

(***************************************************************************)
(* The stores of the multi-metric samplers.                                *)
(***************************************************************************)
\* the keys of a defaultdict of deques: a key is made by the first access,
\* and in the merge every first access is followed by an append
StoreKeys(h) == {s \in Ssids : h[s] # <<>>}

\* the stores a script keeps next to history_rssi
DerivedStores ==
    IF HasFreq(variant) THEN {history_snr, history_srri, history_freq}
    ELSE IF HasDerived(variant) THEN {history_snr, history_srri}
    ELSE {}

\* C21: in signaali.py and signal3.py every store next to the raw-signal
\* store (SNR, ratio and, in signal3.py, frequency) has the keys of the
\* raw-signal store, and for every identity a series as long as the
\* raw-signal series, in every state, so also whenever the consumer holds
\* the lock and walks the raw-signal keys.
C21_StoresInStep ==
    \A h \in DerivedStores :
        /\ StoreKeys(h) = StoreKeys(history_rssi)
        /\ StoreKeys(h) = Range(keys)
        /\ \A s \in Ssids : Len(h[s]) = Len(history_rssi[s])

\* two identities tracked by signal3.py, one of them padded in all four
\* stores after a scan that did not list it, while the consumer draws
C21_Witness ==
    /\ variant = "signal3"
    /\ Len(keys) = 2
    /\ cpc = "render"
    /\ \E s \in Range(keys) :
          /\ Len(history_freq[s]) = MAX_POINTS
          /\ Last(history_rssi[s]) = NaN
          /\ Last(history_snr[s]) = NaN
          /\ Last(history_srri[s]) = NaN
          /\ Last(history_freq[s]) = NaN

(***************************************************************************)
(* The store after the stop signal.                                        *)
(***************************************************************************)
\* how far the scanner thread is in one pass of its loop body
CyclePos ==
    [pc \in {"scan", "lock", "push", "update", "unlock", "sleep", "check",
             "Stopped", "Crashed"} |->
        CASE pc = "scan" -> 1
          [] pc = "lock" -> 2
          [] pc = "push" -> 3
          [] pc = "update" -> 4
          [] pc = "unlock" -> 5
          [] pc = "sleep" -> 6
          [] pc = "check" -> 7
          [] OTHER -> 8]

\* C22: once the stop signal is set it stays set, the scanner thread only
\* moves forward in the pass of the loop body it is in and starts no other,
\* and the store changes only in the two merge steps of that pass (the
\* timestamp, then the histories): at most one tick is merged after the
\* signal and nothing changes the store afterwards, whether or not main's
\* join has returned.
C22_OneMergeAfterStop ==
    [][stop_event =>
          /\ stop_event'
          /\ CyclePos[spc'] >= CyclePos[spc]
          /\ (store' # store) =>
                /\ spc \in {"push", "update"}
                /\ CyclePos[spc'] > CyclePos[spc]]_vars

\* the stop signal is set, the join has returned and main() has ended, and
\* the tick that was in flight is in the middle of its merge with networks
\* still to be written to the histories
C22_Witness ==
    /\ stop_event
    /\ mpc = "done"
    /\ spc = "update"
    /\ lock = "scanner"
    /\ nets # <<>>
    /\ time_axis # axis0

====
